---- MODULE Spec2Model ----
(***************************************************************************)
(* Model of the signaling server of unisockets                             *)
(* (pkg/web/signaling/services/signaling-server.ts).                       *)
(*                                                                         *)
(* Every `await` of the source is a suspension point: a handler runs       *)
(* atomically from one await to the next, and between two such steps any   *)
(* other handler, close callback or inbound event may run.  Addresses are  *)
(* modelled as token sequences: the id "S.n" is <<S, n>> and the alias     *)
(* "S.n:p" is <<S, n, p>>, so that parsing and formatting are computed.    *)
(***************************************************************************)
EXTENDS Integers, Sequences, FiniteSets, TLC

\* ---------------------------------------------------------------- bounds
NumTransports == 2
MaxOps == 4
MaxSerialOps == 5
MaxEstablishedOps == 4
MaxCrowdedOps == 1
MaxTrioOps == 3
MaxOverlaps == 1
MaxKeeperOps == 1
MaxMutexOps == 2
MaxTicks == 2
MaxSuffixIn == 1
MaxPortIn == 1

\* ------------------------------------------------------ program constants
MaxSuffix == 255
NoClient == 0

Transports == 1..NumTransports
Subnets == {"S"}
ConnectionIds == {"c1"}
\* a subnet no client joins, named in aliases only
Unjoined == {"T"}
Rejected == <<"-1">>
NoAddress == <<>>

\* --------------------------------------------------- address conversions
ToIPAddress(subnet, suffix) == <<subnet, suffix>>

ToTCPAddress(ipAddress, port) == ipAddress \o <<port>>

\* split(".") then parseInt(parts[3]): on an alias "S.n:p" the fourth part is
\* "n:p", and parseInt stops at the colon, so the suffix of an alias is n.
ParseIPAddress(ipAddress) == [subnet |-> ipAddress[1], suffix |-> ipAddress[2]]

ParseTCPAddress(tcpAddress) ==
  [ipAddress |-> SubSeq(tcpAddress, 1, 2), port |-> tcpAddress[3]]

\* ------------------------------------------------------------- JS Map
\* A Map is a sequence of [key, val] entries in insertion order.
MapKeys(m) == {m[i].key : i \in 1..Len(m)}

MapHas(m, k) == \E i \in 1..Len(m) : m[i].key = k

MapGet(m, k) == m[CHOOSE i \in 1..Len(m) : m[i].key = k].val

MapSet(m, k, v) ==
  IF MapHas(m, k)
  THEN [i \in 1..Len(m) |-> IF m[i].key = k THEN [key |-> k, val |-> v] ELSE m[i]]
  ELSE Append(m, [key |-> k, val |-> v])

MapDelete(m, k) == SelectSeq(m, LAMBDA e : e.key # k)

\* clients.get(id): the transport, or undefined
ClientOf(cl, id) == IF MapHas(cl, id) THEN MapGet(cl, id) ELSE NoClient

MAlias(id, accepting) == [id |-> id, accepting |-> accepting]

\* ------------------------------------------------------------ messages
Acknowledgement(id, rejected) ==
  [opcode |-> "ACKNOWLEDGEMENT", id |-> id, rejected |-> rejected]

Greeting(offererId, answererId) ==
  [opcode |-> "GREETING", offererId |-> offererId, answererId |-> answererId]

Alias(id, alias, set) ==
  [opcode |-> "ALIAS", id |-> id, alias |-> alias, set |-> set]

AliasConn(id, alias, set, ccid) ==
  [opcode |-> "ALIAS", id |-> id, alias |-> alias, set |-> set,
   clientConnectionId |-> ccid]

AliasConnFlag(id, alias, set, ccid) ==
  [opcode |-> "ALIAS", id |-> id, alias |-> alias, set |-> set,
   clientConnectionId |-> ccid, isConnectionAlias |-> TRUE]

Accept(boundAlias, clientAlias) ==
  [opcode |-> "ACCEPT", boundAlias |-> boundAlias, clientAlias |-> clientAlias]

Goodbye(id) == [opcode |-> "GOODBYE", id |-> id]

\* send(client, operation): the write is issued when send is called; the log
\* keeps the target (NoClient when the lookup gave undefined) and the message.
Send(log, client, msg) == Append(log, [to |-> client, msg |-> msg])

RECURSIVE Broadcast(_, _, _)
\* clients.forEach(async (client) => await this.send(client, msg))
Broadcast(log, cl, msg) ==
  IF cl = <<>> THEN log
  ELSE Broadcast(Send(log, Head(cl).val, msg), Tail(cl), msg)

\* ------------------------------------------------------------ allocator
\* Array.from(keys).sort((a, b) => a - b): the keys in increasing order
SortedSeq(S) ==
  IF S = {} THEN <<>>
  ELSE LET max == CHOOSE x \in S : \A y \in S : y <= x
       IN SelectSeq([i \in 1..(max + 1) |-> i - 1], LAMBDA x : x \in S)

SeqToSet(s) == {s[i] : i \in 1..Len(s)}

\* ports.sort((a, b) => a - b)
SortPorts(ports) == SortSeq(ports, LAMBDA a, b : a < b)

\* an allocation that only ever appends: res(length)
FirstGapAppend(sorted) == Len(sorted)

\* forEach((v, index) => v !== index && res(index)); res(length):
\* the first call of res wins.
FirstGap(sorted) ==
  IF \E i \in 1..Len(sorted) : sorted[i] # i - 1
  THEN (CHOOSE i \in 1..Len(sorted) :
          sorted[i] # i - 1 /\ \A j \in 1..(i - 1) : sorted[j] = j - 1) - 1
  ELSE Len(sorted)

EmptyMembers == [n \in {} |-> <<>>]

HasSubnet(sn, subnet) == subnet \in DOMAIN sn

HasSuffix(sn, subnet, suffix) ==
  HasSubnet(sn, subnet) /\ suffix \in DOMAIN sn[subnet]

SetMember(sn, subnet, suffix, ports) ==
  [sn EXCEPT ![subnet] =
     [n \in (DOMAIN @) \cup {suffix} |-> IF n = suffix THEN ports ELSE @[n]]]

DeleteMember(sn, subnet, suffix) ==
  [sn EXCEPT ![subnet] = [n \in (DOMAIN @) \ {suffix} |-> @[n]]]

Outcome(sn, res, err) == [subnets |-> sn, res |-> res, err |-> err]

\* createIPAddress that would refuse the last suffix: newSuffix >= 255
CreateIPAddressBodyEarly(sn, subnet) ==
  LET sn1 == IF HasSubnet(sn, subnet) THEN sn
             ELSE [s \in (DOMAIN sn) \cup {subnet} |->
                     IF s = subnet THEN EmptyMembers ELSE sn[s]]
      existingMembers == SortedSeq(DOMAIN sn1[subnet])
      newSuffix == FirstGap(existingMembers)
  IN IF newSuffix >= MaxSuffix
     THEN Outcome(sn1, Rejected, "")
     ELSE Outcome(SetMember(sn1, subnet, newSuffix, <<>>),
                  ToIPAddress(subnet, newSuffix), "")

CreateIPAddressBody(sn, subnet) ==
  LET sn1 == IF HasSubnet(sn, subnet) THEN sn
             ELSE [s \in (DOMAIN sn) \cup {subnet} |->
                     IF s = subnet THEN EmptyMembers ELSE sn[s]]
      existingMembers == SortedSeq(DOMAIN sn1[subnet])
      newSuffix == FirstGap(existingMembers)
  IN IF newSuffix > MaxSuffix
     THEN Outcome(sn1, Rejected, "")
     ELSE Outcome(SetMember(sn1, subnet, newSuffix, <<>>),
                  ToIPAddress(subnet, newSuffix), "")

CreateTCPAddressBody(sn, ipAddress) ==
  LET p == ParseIPAddress(ipAddress)
  IN IF HasSubnet(sn, p.subnet)
     THEN IF HasSuffix(sn, p.subnet, p.suffix)
          THEN LET existingPorts == SortPorts(sn[p.subnet][p.suffix])
                   newPort == FirstGap(existingPorts)
               IN Outcome(SetMember(sn, p.subnet, p.suffix,
                                    Append(existingPorts, newPort)),
                          ToTCPAddress(ToIPAddress(p.subnet, p.suffix), newPort),
                          "")
          ELSE Outcome(sn, NoAddress, "SuffixDoesNotExist")
     ELSE Outcome(sn, NoAddress, "SubnetDoesNotExist")

ClaimTCPAddressBody(sn, tcpAddress) ==
  LET t == ParseTCPAddress(tcpAddress)
      p == ParseIPAddress(t.ipAddress)
  IN IF HasSubnet(sn, p.subnet)
     THEN LET sn1 == IF HasSuffix(sn, p.subnet, p.suffix) THEN sn
                     ELSE SetMember(sn, p.subnet, p.suffix, <<>>)
              ports == sn1[p.subnet][p.suffix]
          IN IF t.port \notin SeqToSet(ports)
             THEN Outcome(SetMember(sn1, p.subnet, p.suffix,
                                    Append(ports, t.port)), NoAddress, "")
             ELSE Outcome(sn1, NoAddress, "PortAlreadyAllocated")
     ELSE Outcome(sn, NoAddress, "SubnetDoesNotExist")

RemoveIPAddressBody(sn, ipAddress) ==
  LET p == ParseIPAddress(ipAddress)
  IN IF HasSuffix(sn, p.subnet, p.suffix)
     THEN Outcome(DeleteMember(sn, p.subnet, p.suffix), NoAddress, "")
     ELSE Outcome(sn, NoAddress, "")

RemoveTCPAddressBody(sn, tcpAddress) ==
  LET t == ParseTCPAddress(tcpAddress)
      p == ParseIPAddress(t.ipAddress)
  IN IF HasSuffix(sn, p.subnet, p.suffix)
     THEN Outcome(SetMember(sn, p.subnet, p.suffix,
                            SelectSeq(sn[p.subnet][p.suffix],
                                      LAMBDA q : q # t.port)),
                  NoAddress, "")
     ELSE Outcome(sn, NoAddress, "")

\* ------------------------------------------------------------------ state
VARIABLES
  conn,          \* transport -> "none" | "open" | "terminated" | "closed"
  clients,       \* Map id -> transport                        (line 31)
  aliases,       \* Map alias -> MAlias                        (line 32)
  subnets,       \* subnet -> (suffix -> ports)                (line 487)
  holder,        \* the request inside the mutex, or NoRequest (line 488)
  queue,         \* requests waiting for the mutex, in order
  h,             \* transport -> its message handler in flight; remoteOwner
                 \* keeps the owner remoteAlias had when CONNECT accepted it
  g,             \* transport -> its close callback
  cb,            \* alias callbacks started by close callbacks
  acked,         \* transport -> id acknowledged with rejected:false
  closeHandler,  \* transport -> id whose goodbye is installed on it
  budget,        \* inbound messages that may still be taken
  slack,         \* events that may still be taken while an earlier one is pending
  isAlive,       \* transport -> client.isAlive                (line 52)
  pings,         \* transport -> a ping sent to it is unanswered
  ticks,         \* runs of the keeper's interval callback so far
  named          \* the subnets clients name in the aliases they send

vars == <<conn, clients, aliases, subnets, holder, queue, h, g, cb, acked,
          closeHandler, budget, slack, isAlive, pings, ticks, named>>

\* what only the keeper, the pong handler and a new connection write
keeper == <<isAlive, pings, ticks>>

NoRequest == [kind |-> "none", t |-> 0, alias |-> <<>>, op |-> "none", arg |-> <<>>]

Request(kind, t, alias, op, arg) ==
  [kind |-> kind, t |-> t, alias |-> alias, op |-> op, arg |-> arg]

Idle ==
  [op |-> "none", pc |-> "idle", ready |-> FALSE, subnet |-> "", id |-> <<>>,
   alias |-> <<>>, ccid |-> "", res |-> <<>>, err |-> "", client |-> NoClient,
   server |-> NoClient, serverId |-> <<>>, remoteOwner |-> <<>>,
   sent |-> <<>>]

NoGoodbye == [pc |-> "none", ready |-> FALSE, id |-> <<>>, sent |-> <<>>]

\* the ids a client puts into a message: the id it was acknowledged with
InIds(t) == IF acked[t] = NoAddress THEN {} ELSE {acked[t]}

\* the aliases a client puts into a message
InAliases(t) ==
  {ToTCPAddress(ToIPAddress(s, n), p) :
     s \in named, n \in 0..MaxSuffixIn, p \in 0..MaxPortIn}
    \cup {ToTCPAddress(id, p) : id \in InIds(t), p \in 0..MaxPortIn}

\* nothing is in flight: the tables and the connections are as given
Settled(conn0, clients0, aliases0, subnets0, ids0, allowed, ops) ==
  /\ conn = conn0
  /\ clients = clients0
  /\ aliases = aliases0
  /\ subnets = subnets0
  /\ holder = NoRequest
  /\ queue = <<>>
  /\ h = [t \in Transports |-> Idle]
  /\ g = [t \in Transports |-> NoGoodbye]
  /\ cb = {}
  /\ acked = ids0
  /\ closeHandler = ids0
  /\ slack = allowed
  /\ budget = ops
  /\ isAlive = [t \in Transports |-> TRUE]
  /\ pings = [t \in Transports |-> FALSE]
  /\ ticks = 0
  /\ named = Subnets

Constructed(allowed, ops) ==
  Settled([t \in Transports |-> "none"], <<>>, <<>>,
          [s \in {} |-> EmptyMembers], [t \in Transports |-> NoAddress],
          allowed, ops)

\* the state after construction
Init == Constructed(MaxOverlaps, MaxOps)

\* the same, every event being handled to completion before the next is taken
SerialInit == Constructed(0, MaxSerialOps)

\* the state after transport 1 has joined subnet S as S.0 and transport 2 as
\* S.1, and transport 2 has bound S.0:0 and declared it accepting (KNOCK,
\* KNOCK, BIND, ACCEPTING handled one after the other)
EstablishedInit ==
  LET id1 == ToIPAddress("S", 0)
      id2 == ToIPAddress("S", 1)
      ids == [t \in Transports |->
                IF t = 1 THEN id1 ELSE IF t = 2 THEN id2 ELSE NoAddress]
  IN Settled([t \in Transports |-> IF t \in {1, 2} THEN "open" ELSE "none"],
             <<[key |-> id1, val |-> 1], [key |-> id2, val |-> 2]>>,
             <<[key |-> ToTCPAddress(id1, 0), val |-> MAlias(id2, TRUE)]>>,
             [s \in {"S"} |-> [n \in {0, 1} |-> IF n = 0 THEN <<0>> ELSE <<>>]],
             ids, 0, MaxEstablishedOps)

\* subnet S full: a client that stays connected, on a transport the model
\* does not move, joined as S.(MaxSuffix-1) when the suffixes below were taken
\* and has since bound S.n:0 for every n below its own, S.0:0 accepting;
\* transport 1 joined as S.MaxSuffix and has bound S.MaxSuffix:0
Resident == NumTransports + 1

CrowdedInit ==
  LET resident == ToIPAddress("S", MaxSuffix - 1)
      last == ToIPAddress("S", MaxSuffix)
  IN Settled([t \in Transports |-> IF t = 1 THEN "open" ELSE "none"],
             <<[key |-> resident, val |-> Resident], [key |-> last, val |-> 1]>>,
             [i \in 1..MaxSuffix |->
                IF i = MaxSuffix
                THEN [key |-> ToTCPAddress(last, 0), val |-> MAlias(last, FALSE)]
                ELSE [key |-> ToTCPAddress(ToIPAddress("S", i - 1), 0),
                      val |-> MAlias(resident, i = 1)]],
             [s \in {"S"} |->
                [n \in 0..MaxSuffix |->
                   IF n = MaxSuffix - 1 THEN <<>> ELSE <<0>>]],
             [t \in Transports |-> IF t = 1 THEN last ELSE NoAddress],
             0, MaxCrowdedOps)

\* three clients have joined subnet S one after the other: transports 1 and
\* 2 as S.0 and S.1, and as S.2 a client that stays connected on a transport
\* the model does not move
TrioInit ==
  LET id1 == ToIPAddress("S", 0)
      id2 == ToIPAddress("S", 1)
      id3 == ToIPAddress("S", 2)
      ids == [t \in Transports |->
                IF t = 1 THEN id1 ELSE IF t = 2 THEN id2 ELSE NoAddress]
  IN Settled([t \in Transports |-> IF t \in {1, 2} THEN "open" ELSE "none"],
             <<[key |-> id1, val |-> 1], [key |-> id2, val |-> 2],
               [key |-> id3, val |-> Resident]>>,
             <<>>,
             [s \in {"S"} |-> [n \in 0..2 |-> <<>>]],
             ids, 0, MaxTrioOps)

\* the state of EstablishedInit, the keeper's interval about to run for the
\* first time
KeeperInit ==
  LET id1 == ToIPAddress("S", 0)
      id2 == ToIPAddress("S", 1)
      ids == [t \in Transports |->
                IF t = 1 THEN id1 ELSE IF t = 2 THEN id2 ELSE NoAddress]
  IN Settled([t \in Transports |-> IF t \in {1, 2} THEN "open" ELSE "none"],
             <<[key |-> id1, val |-> 1], [key |-> id2, val |-> 2]>>,
             <<[key |-> ToTCPAddress(id1, 0), val |-> MAlias(id2, TRUE)]>>,
             [s \in {"S"} |-> [n \in {0, 1} |-> IF n = 0 THEN <<0>> ELSE <<>>]],
             ids, MaxOverlaps, MaxKeeperOps)

\* the state of EstablishedInit, events being taken while an earlier one is
\* pending, and clients naming also aliases in a subnet nobody has joined
MutexInit ==
  LET id1 == ToIPAddress("S", 0)
      id2 == ToIPAddress("S", 1)
      ids == [t \in Transports |->
                IF t = 1 THEN id1 ELSE IF t = 2 THEN id2 ELSE NoAddress]
  IN /\ conn = [t \in Transports |-> IF t \in {1, 2} THEN "open" ELSE "none"]
     /\ clients = <<[key |-> id1, val |-> 1], [key |-> id2, val |-> 2]>>
     /\ aliases = <<[key |-> ToTCPAddress(id1, 0), val |-> MAlias(id2, TRUE)]>>
     /\ subnets = [s \in {"S"} |->
                     [n \in {0, 1} |-> IF n = 0 THEN <<0>> ELSE <<>>]]
     /\ holder = NoRequest
     /\ queue = <<>>
     /\ h = [t \in Transports |-> Idle]
     /\ g = [t \in Transports |-> NoGoodbye]
     /\ cb = {}
     /\ acked = ids
     /\ closeHandler = ids
     /\ slack = MaxOverlaps
     /\ budget = MaxMutexOps
     /\ isAlive = [t \in Transports |-> TRUE]
     /\ pings = [t \in Transports |-> FALSE]
     /\ ticks = 0
     /\ named = Subnets \cup Unjoined

\* no handler, close callback or allocator operation is pending
Quiescent ==
  /\ \A t \in Transports : h[t] = Idle /\ g[t].pc \in {"none", "settled"}
  /\ queue = <<>>
  /\ holder = NoRequest
  /\ cb = {}

\* an event is taken when the earlier ones have been handled, or while they
\* are suspended as long as the model's bound on such slack allows
Admit == Quiescent \/ slack > 0

Overlap == slack' = IF Quiescent THEN slack ELSE slack - 1

\* client.on("message", ...): a message is taken from an open transport whose
\* previous message has been handled
CanReceive(t) == conn[t] = "open" /\ h[t] = Idle /\ budget > 0 /\ Admit

Taken == budget' = budget - 1 /\ Overlap

\* nothing of the server refers to the closed socket any more
Forgotten(t) ==
  /\ conn[t] = "closed"
  /\ h[t] = Idle
  /\ g[t].pc \in {"none", "settled"}
  /\ \A i \in 1..Len(clients) : clients[i].val # t

\* server.on("connection", ...): a new socket; the model names it after a
\* socket that has never been used or after one the server has forgotten
Connection(t) ==
  /\ conn[t] = "none" \/ Forgotten(t)
  /\ Quiescent
  /\ conn' = [conn EXCEPT ![t] = "open"]
  /\ acked' = [acked EXCEPT ![t] = NoAddress]
  /\ closeHandler' = [closeHandler EXCEPT ![t] = NoAddress]
  /\ g' = [g EXCEPT ![t] = NoGoodbye]
  /\ isAlive' = [isAlive EXCEPT ![t] = TRUE]
  /\ pings' = [pings EXCEPT ![t] = FALSE]
  /\ UNCHANGED <<clients, aliases, subnets, holder, queue, h, cb, budget,
                 slack, ticks, named>>

\* ------------------------------------------------------------- the mutex
\* a mutex that resumes its oldest waiter whether or not it is free
CanAcquireBusy(op) ==
  /\ queue # <<>>
  /\ Head(queue).op = op

\* await this.subnetsMutex.acquire() resumes the oldest waiter when the mutex
\* is free
CanAcquire(op) ==
  /\ holder = NoRequest
  /\ queue # <<>>
  /\ Head(queue).op = op

\* the promise awaited by the caller of an allocator operation settles; only
\* the two create operations return a value
SettleH(req, out) ==
  IF req.kind = "h"
  THEN [h EXCEPT ![req.t].ready = TRUE,
                 ![req.t].res = IF req.op \in {"createIPAddress",
                                               "createTCPAddress"}
                                THEN out.res ELSE @,
                 ![req.t].err = out.err]
  ELSE h

SettleG(req) ==
  IF req.kind = "g" THEN [g EXCEPT ![req.t].ready = TRUE] ELSE g

SettleCb(req) ==
  IF req.kind = "a"
  THEN {IF c.t = req.t /\ c.alias = req.alias THEN [c EXCEPT !.ready = TRUE]
        ELSE c : c \in cb}
  ELSE cb

\* createIPAddress and createTCPAddress await a promise inside the try block:
\* they are suspended there holding the mutex
AllocatorEnter(op) ==
  /\ CanAcquire(op)
  /\ holder' = Head(queue)
  /\ queue' = Tail(queue)
  /\ UNCHANGED <<named, keeper, conn, clients, aliases, subnets, h, g, cb, acked,
                 closeHandler, budget, slack>>

\* ... and resume to finish the body; finally { release() }
AllocatorFinish(op, out) ==
  /\ holder.op = op
  /\ subnets' = out.subnets
  /\ holder' = NoRequest
  /\ h' = SettleH(holder, out)
  /\ g' = SettleG(holder)
  /\ cb' = SettleCb(holder)
  /\ UNCHANGED <<named, keeper, conn, clients, aliases, queue, acked, closeHandler, budget, slack>>

\* the other three run from acquire() to release() without suspending
AllocatorRun(op, out) ==
  /\ CanAcquire(op)
  /\ queue' = Tail(queue)
  /\ subnets' = out.subnets
  /\ h' = SettleH(Head(queue), out)
  /\ g' = SettleG(Head(queue))
  /\ cb' = SettleCb(Head(queue))
  /\ UNCHANGED <<named, keeper, conn, clients, aliases, holder, acked, closeHandler, budget, slack>>

CreateIPAddressEnter == AllocatorEnter("createIPAddress")

CreateIPAddress ==
  AllocatorFinish("createIPAddress",
                  CreateIPAddressBody(subnets, holder.arg[1]))

CreateTCPAddressEnter == AllocatorEnter("createTCPAddress")

CreateTCPAddress ==
  AllocatorFinish("createTCPAddress", CreateTCPAddressBody(subnets, holder.arg))

ClaimTCPAddress ==
  AllocatorRun("claimTCPAddress",
               ClaimTCPAddressBody(subnets, Head(queue).arg))

RemoveIPAddress ==
  AllocatorRun("removeIPAddress",
               RemoveIPAddressBody(subnets, Head(queue).arg))

RemoveTCPAddress ==
  AllocatorRun("removeTCPAddress",
               RemoveTCPAddressBody(subnets, Head(queue).arg))

\* ------------------------------------------------------------ handleKnock
Knock(t, subnet) ==
  /\ CanReceive(t)
  /\ acked[t] = NoAddress
  /\ h' = [h EXCEPT ![t] = [Idle EXCEPT !.op = "KNOCK", !.pc = "knock_ip",
                                        !.subnet = subnet]]
  /\ queue' = Append(queue, Request("h", t, <<>>, "createIPAddress", <<subnet>>))
  /\ Taken
  /\ UNCHANGED <<named, keeper, conn, clients, aliases, subnets, holder, g, cb, acked,
                 closeHandler>>

KnockAcknowledge(t) ==
  /\ h[t].pc = "knock_ip" /\ h[t].ready
  /\ LET id == h[t].res
     IN IF id # Rejected
        THEN /\ h' = [h EXCEPT ![t].pc = "knock_ack",
                               ![t].id = id,
                               ![t].sent = Send(@, t, Acknowledgement(id, FALSE))]
             /\ acked' = [acked EXCEPT ![t] = id]
        ELSE /\ h' = [h EXCEPT ![t].pc = "done",
                               ![t].id = id,
                               ![t].sent = Send(@, t, Acknowledgement(id, TRUE))]
             /\ UNCHANGED acked
  /\ UNCHANGED <<named, keeper, conn, clients, aliases, subnets, holder, queue, g, cb,
                 closeHandler, budget, slack>>

RECURSIVE Greet(_, _, _)
\* clients.forEach: existingId !== id && send(existingClient, Greeting)
Greet(log, cl, id) ==
  IF cl = <<>> THEN log
  ELSE Greet(IF Head(cl).key # id
             THEN Send(log, Head(cl).val, Greeting(Head(cl).key, id))
             ELSE log,
             Tail(cl), id)

\* clients.set(id, client); registerGoodbye(id) installs the close callback on
\* the transport now registered under id
KnockRegister(t) ==
  /\ h[t].pc = "knock_ack" /\ h[t].ready
  /\ LET id == h[t].id
         registered == MapSet(clients, id, t)
     IN /\ h' = [h EXCEPT ![t].pc = "done", ![t].sent = Greet(@, clients, id)]
        /\ clients' = registered
        /\ closeHandler' =
             IF MapHas(registered, id)
             THEN [closeHandler EXCEPT ![MapGet(registered, id)] = id]
             ELSE closeHandler
  /\ UNCHANGED <<named, keeper, conn, aliases, subnets, holder, queue, g, cb, acked, budget, slack>>

\* the handler's promise settles (handleOperation returns or rejects)
Return(t) ==
  /\ h[t].pc \in {"done", "threw"}
  /\ h' = [h EXCEPT ![t] = Idle]
  /\ UNCHANGED <<named, keeper, conn, clients, aliases, subnets, holder, queue, g, cb, acked,
                 closeHandler, budget, slack>>

\* ------------------------------------------------------------- handleBind
Bind(t, id, alias) ==
  /\ CanReceive(t)
  /\ Taken
  /\ IF MapHas(aliases, alias)
     THEN /\ h' = [h EXCEPT ![t] =
                     [Idle EXCEPT !.op = "BIND", !.pc = "done", !.id = id,
                                  !.alias = alias,
                                  !.sent = Send(<<>>, ClientOf(clients, id),
                                                Alias(id, alias, FALSE))]]
          /\ UNCHANGED queue
     ELSE /\ h' = [h EXCEPT ![t] =
                     [Idle EXCEPT !.op = "BIND", !.pc = "bind_claim", !.id = id,
                                  !.alias = alias]]
          /\ queue' = Append(queue,
                             Request("h", t, <<>>, "claimTCPAddress", alias))
  /\ UNCHANGED <<named, keeper, conn, clients, aliases, subnets, holder, g, cb, acked,
                 closeHandler>>

\* after await this.claimTCPAddress(data.alias); an error thrown by it rejects
\* the handler
BindRegister(t) ==
  /\ h[t].pc = "bind_claim" /\ h[t].ready
  /\ IF h[t].err # ""
     THEN /\ h' = [h EXCEPT ![t].pc = "threw"]
          /\ UNCHANGED aliases
     ELSE /\ aliases' = MapSet(aliases, h[t].alias, MAlias(h[t].id, FALSE))
          /\ h' = [h EXCEPT ![t].pc = "done",
                            ![t].sent = Broadcast(@, clients,
                                          Alias(h[t].id, h[t].alias, TRUE))]
  /\ UNCHANGED <<named, keeper, conn, clients, subnets, holder, queue, g, cb, acked,
                 closeHandler, budget, slack>>

\* -------------------------------------------------------- handleAccepting
\* handleAccepting without the test of the owner
AcceptingAnyOwner(t, id, alias) ==
  /\ CanReceive(t)
  /\ Taken
  /\ h' = [h EXCEPT ![t] = [Idle EXCEPT !.op = "ACCEPTING", !.pc = "done",
                                        !.id = id, !.alias = alias]]
  /\ IF ~MapHas(aliases, alias)
     THEN UNCHANGED aliases
     ELSE aliases' = MapSet(aliases, alias, MAlias(id, TRUE))
  /\ UNCHANGED <<named, keeper, conn, clients, subnets, holder, queue, g, cb, acked,
                 closeHandler>>

Accepting(t, id, alias) ==
  /\ CanReceive(t)
  /\ Taken
  /\ h' = [h EXCEPT ![t] = [Idle EXCEPT !.op = "ACCEPTING", !.pc = "done",
                                        !.id = id, !.alias = alias]]
  /\ IF ~MapHas(aliases, alias) \/ MapGet(aliases, alias).id # id
     THEN UNCHANGED aliases
     ELSE aliases' = MapSet(aliases, alias, MAlias(id, TRUE))
  /\ UNCHANGED <<named, keeper, conn, clients, subnets, holder, queue, g, cb, acked,
                 closeHandler>>

\* --------------------------------------------------------- handleShutdown
Shutdown(t, id, alias) ==
  /\ CanReceive(t)
  /\ Taken
  /\ IF MapHas(aliases, alias) /\ MapGet(aliases, alias).id = id
     THEN /\ aliases' = MapDelete(aliases, alias)
          /\ h' = [h EXCEPT ![t] =
                     [Idle EXCEPT !.op = "SHUTDOWN", !.pc = "shutdown_tcp",
                                  !.id = id, !.alias = alias]]
          /\ queue' = Append(queue,
                             Request("h", t, <<>>, "removeTCPAddress", alias))
     ELSE /\ h' = [h EXCEPT ![t] =
                     [Idle EXCEPT !.op = "SHUTDOWN", !.pc = "done", !.id = id,
                                  !.alias = alias,
                                  !.sent = Send(<<>>, ClientOf(clients, id),
                                                Alias(id, alias, TRUE))]]
          /\ UNCHANGED <<aliases, queue>>
  /\ UNCHANGED <<named, keeper, conn, clients, subnets, holder, g, cb, acked, closeHandler>>

\* after await this.removeTCPAddress(data.alias)
ShutdownRemoveIP(t) ==
  /\ h[t].pc = "shutdown_tcp" /\ h[t].ready
  /\ h' = [h EXCEPT ![t].pc = "shutdown_ip", ![t].ready = FALSE]
  /\ queue' = Append(queue,
                     Request("h", t, <<>>, "removeIPAddress", h[t].alias))
  /\ UNCHANGED <<named, keeper, conn, clients, aliases, subnets, holder, g, cb, acked,
                 closeHandler, budget, slack>>

\* after await this.removeIPAddress(data.alias)
ShutdownBroadcast(t) ==
  /\ h[t].pc = "shutdown_ip" /\ h[t].ready
  /\ h' = [h EXCEPT ![t].pc = "done",
                    ![t].sent = Broadcast(@, clients,
                                          Alias(h[t].id, h[t].alias, FALSE))]
  /\ UNCHANGED <<named, keeper, conn, clients, aliases, subnets, holder, queue, g, cb, acked,
                 closeHandler, budget, slack>>

\* ---------------------------------------------------------- handleConnect
Connect(t, id, remoteAlias, ccid) ==
  /\ CanReceive(t)
  /\ Taken
  /\ h' = [h EXCEPT ![t] =
             [Idle EXCEPT !.op = "CONNECT", !.pc = "connect_tcp", !.id = id,
                          !.alias = remoteAlias, !.ccid = ccid]]
  /\ queue' = Append(queue, Request("h", t, <<>>, "createTCPAddress", id))
  /\ UNCHANGED <<named, keeper, conn, clients, aliases, subnets, holder, g, cb, acked,
                 closeHandler>>

\* after await this.createTCPAddress(data.id): reject and roll back, or
\* register the connection alias and send it to the initiator
ConnectDecide(t) ==
  /\ h[t].pc = "connect_tcp" /\ h[t].ready
  /\ LET clientAlias == h[t].res
         client == ClientOf(clients, h[t].id)
     IN IF h[t].err # ""
        THEN /\ h' = [h EXCEPT ![t].pc = "threw"]
             /\ UNCHANGED <<aliases, queue>>
        ELSE IF ~MapHas(aliases, h[t].alias)
                  \/ ~MapGet(aliases, h[t].alias).accepting
        THEN /\ h' = [h EXCEPT ![t].pc = "connect_rollback",
                               ![t].ready = FALSE, ![t].client = client]
             /\ queue' = Append(queue, Request("h", t, <<>>,
                                               "removeTCPAddress", clientAlias))
             /\ UNCHANGED aliases
        ELSE /\ aliases' = MapSet(aliases, clientAlias, MAlias(h[t].id, FALSE))
             /\ h' = [h EXCEPT ![t].pc = "connect_client_alias",
                               ![t].client = client,
                               ![t].remoteOwner = MapGet(aliases, h[t].alias).id,
                               ![t].sent = Send(@, client,
                                  AliasConnFlag(h[t].id, clientAlias, TRUE,
                                                h[t].ccid))]
             /\ UNCHANGED queue
  /\ UNCHANGED <<named, keeper, conn, clients, subnets, holder, g, cb, acked, closeHandler,
                 budget, slack>>

\* after await this.removeTCPAddress(clientAlias)
ConnectReject(t) ==
  /\ h[t].pc = "connect_rollback" /\ h[t].ready
  /\ h' = [h EXCEPT ![t].pc = "done",
                    ![t].sent = Send(@, h[t].client,
                                     AliasConn(h[t].id, h[t].res, FALSE,
                                               h[t].ccid))]
  /\ UNCHANGED <<named, keeper, conn, clients, aliases, subnets, holder, queue, g, cb, acked,
                 closeHandler, budget, slack>>

\* after await this.send(client, clientAliasMessage): the remote alias is read
\* again; serverId.id of an alias that is gone is a TypeError
ConnectServerAlias(t) ==
  /\ h[t].pc = "connect_client_alias" /\ h[t].ready
  /\ IF ~MapHas(aliases, h[t].alias)
     THEN h' = [h EXCEPT ![t].pc = "threw", ![t].err = "TypeError"]
     ELSE LET serverId == MapGet(aliases, h[t].alias)
              server == ClientOf(clients, serverId.id)
          IN h' = [h EXCEPT ![t].pc = "connect_server_alias",
                            ![t].serverId = serverId.id,
                            ![t].server = server,
                            ![t].sent = Send(@, server,
                                             Alias(h[t].id, h[t].res, TRUE))]
  /\ UNCHANGED <<named, keeper, conn, clients, aliases, subnets, holder, queue, g, cb, acked,
                 closeHandler, budget, slack>>

\* after await this.send(server, serverAliasMessage)
ConnectAccept(t) ==
  /\ h[t].pc = "connect_server_alias" /\ h[t].ready
  /\ h' = [h EXCEPT ![t].pc = "connect_accept",
                    ![t].sent = Send(@, h[t].server,
                                     Accept(h[t].alias, h[t].res))]
  /\ UNCHANGED <<named, keeper, conn, clients, aliases, subnets, holder, queue, g, cb, acked,
                 closeHandler, budget, slack>>

\* after await this.send(server, serverAcceptMessage)
ConnectRemoteAlias(t) ==
  /\ h[t].pc = "connect_accept" /\ h[t].ready
  /\ h' = [h EXCEPT ![t].pc = "done",
                    ![t].sent = Send(@, h[t].client,
                                     AliasConn(h[t].serverId, h[t].alias, TRUE,
                                               h[t].ccid))]
  /\ UNCHANGED <<named, keeper, conn, clients, aliases, subnets, holder, queue, g, cb, acked,
                 closeHandler, budget, slack>>

\* ------------------------------------------- registerGoodbye: on "close"
\* the aliases owned by id, in the order of the alias table
OwnedAliases(al, id) == SelectSeq(al, LAMBDA e : e.val.id = id)

\* the transport closes, by its client or after the keeper has terminated it;
\* the close callback, if installed, starts:
\* this.clients.delete(id); await this.removeIPAddress(id)
Close(t) ==
  /\ conn[t] \in {"open", "terminated"}
  /\ Admit
  /\ Overlap
  /\ conn' = [conn EXCEPT ![t] = "closed"]
  /\ IF closeHandler[t] # NoAddress
     THEN /\ clients' = MapDelete(clients, closeHandler[t])
          /\ g' = [g EXCEPT ![t] = [NoGoodbye EXCEPT !.pc = "bye_ip",
                                                     !.id = closeHandler[t]]]
          /\ queue' = Append(queue, Request("g", t, <<>>, "removeIPAddress",
                                            closeHandler[t]))
     ELSE UNCHANGED <<clients, g, queue>>
  /\ UNCHANGED <<named, keeper, aliases, subnets, holder, h, cb, acked, closeHandler, budget>>

\* after await this.removeIPAddress(id): aliases.forEach starts one callback
\* per owned alias, each running up to its first await, and then the Goodbye
\* is sent to every client
GoodbyeBroadcast(t) ==
  /\ g[t].pc = "bye_ip" /\ g[t].ready
  /\ LET id == g[t].id
         owned == OwnedAliases(aliases, id)
     IN /\ aliases' = SelectSeq(aliases, LAMBDA e : e.val.id # id)
        /\ cb' = cb \cup {[t |-> t, alias |-> owned[i].key, pc |-> "cb_ip",
                           ready |-> FALSE] : i \in 1..Len(owned)}
        /\ queue' = queue \o
             [i \in 1..Len(owned) |->
                Request("a", t, owned[i].key, "removeIPAddress", owned[i].key)]
        /\ g' = [g EXCEPT ![t].pc = "done",
                          ![t].sent = Broadcast(@, clients, Goodbye(id))]
  /\ UNCHANGED <<named, keeper, conn, clients, subnets, holder, h, acked, closeHandler, budget, slack>>

\* alias callback, after await this.removeIPAddress(alias)
AliasRemoveTCP(c) ==
  /\ c.pc = "cb_ip" /\ c.ready
  /\ cb' = (cb \ {c}) \cup {[c EXCEPT !.pc = "cb_tcp", !.ready = FALSE]}
  /\ queue' = Append(queue,
                     Request("a", c.t, c.alias, "removeTCPAddress", c.alias))
  /\ UNCHANGED <<named, keeper, conn, clients, aliases, subnets, holder, h, g, acked,
                 closeHandler, budget, slack>>

\* alias callback, after await this.removeTCPAddress(alias)
AliasBroadcast(c) ==
  /\ c.pc = "cb_tcp" /\ c.ready
  /\ cb' = (cb \ {c}) \cup {[c EXCEPT !.pc = "done"]}
  /\ g' = [g EXCEPT ![c.t].sent =
             Broadcast(@, clients, Alias(g[c.t].id, c.alias, FALSE))]
  /\ UNCHANGED <<named, keeper, conn, clients, aliases, subnets, holder, queue, h, acked,
                 closeHandler, budget, slack>>

GoodbyeCompleted(t) ==
  /\ g[t].pc = "done"
  /\ \A c \in cb : c.t = t => c.pc = "done"

\* the close callback and all its alias callbacks have settled
GoodbyeSettled(t) ==
  /\ GoodbyeCompleted(t)
  /\ g' = [g EXCEPT ![t] = [NoGoodbye EXCEPT !.pc = "settled"]]
  /\ cb' = {c \in cb : c.t # t}
  /\ UNCHANGED <<named, keeper, conn, clients, aliases, subnets, holder, queue, h, acked,
                 closeHandler, budget, slack>>

\* ------------------------------------------------------------ the keeper
\* the interval callback: server.clients.forEach((client) => { if
\* (client.isAlive === false) return client.terminate(); client.isAlive =
\* false; client.ping(() => {}) }); the close event of a terminated socket is
\* emitted later
Tick ==
  /\ ticks < MaxTicks
  /\ ticks' = ticks + 1
  /\ conn' = [t \in Transports |->
               IF conn[t] = "open" /\ ~isAlive[t] THEN "terminated"
               ELSE conn[t]]
  /\ isAlive' = [t \in Transports |->
                  IF conn[t] = "open" THEN FALSE ELSE isAlive[t]]
  /\ pings' = [t \in Transports |->
                IF conn[t] = "open" /\ isAlive[t] THEN TRUE ELSE pings[t]]
  /\ UNCHANGED <<clients, aliases, subnets, holder, queue, h, g, cb, acked,
                 closeHandler, budget, slack, named>>

\* the pong of a client is lost: the handler of "pong" leaves the flag alone
PongDropped(t) ==
  /\ conn[t] = "open"
  /\ pings' = [pings EXCEPT ![t] = FALSE]
  /\ UNCHANGED <<conn, clients, aliases, subnets, holder, queue, h, g, cb,
                 acked, closeHandler, budget, slack, isAlive, ticks, named>>

\* client.on("pong", () => { client.isAlive = true })
Pong(t) ==
  /\ conn[t] = "open"
  /\ isAlive' = [isAlive EXCEPT ![t] = TRUE]
  /\ pings' = [pings EXCEPT ![t] = FALSE]
  /\ UNCHANGED <<conn, clients, aliases, subnets, holder, queue, h, g, cb,
                 acked, closeHandler, budget, slack, ticks, named>>

Next ==
  \/ \E t \in Transports : Connection(t)
  \/ CreateIPAddressEnter
  \/ CreateIPAddress
  \/ CreateTCPAddressEnter
  \/ CreateTCPAddress
  \/ ClaimTCPAddress
  \/ RemoveIPAddress
  \/ RemoveTCPAddress
  \/ \E t \in Transports, s \in Subnets : Knock(t, s)
  \/ \E t \in Transports : KnockAcknowledge(t)
  \/ \E t \in Transports : KnockRegister(t)
  \/ \E t \in Transports : \E id \in InIds(t), a \in InAliases(t) : Bind(t, id, a)
  \/ \E t \in Transports : BindRegister(t)
  \/ \E t \in Transports : \E id \in InIds(t), a \in InAliases(t) :
       Accepting(t, id, a)
  \/ \E t \in Transports : \E id \in InIds(t), a \in InAliases(t) :
       Shutdown(t, id, a)
  \/ \E t \in Transports : ShutdownRemoveIP(t)
  \/ \E t \in Transports : ShutdownBroadcast(t)
  \/ \E t \in Transports : \E id \in InIds(t), a \in InAliases(t),
                              c \in ConnectionIds : Connect(t, id, a, c)
  \/ \E t \in Transports : ConnectDecide(t)
  \/ \E t \in Transports : ConnectReject(t)
  \/ \E t \in Transports : ConnectServerAlias(t)
  \/ \E t \in Transports : ConnectAccept(t)
  \/ \E t \in Transports : ConnectRemoteAlias(t)
  \/ \E t \in Transports : Return(t)
  \/ \E t \in Transports : Close(t)
  \/ \E t \in Transports : GoodbyeBroadcast(t)
  \/ \E c \in cb : AliasRemoveTCP(c)
  \/ \E c \in cb : AliasBroadcast(c)
  \/ \E t \in Transports : GoodbyeSettled(t)

Spec == Init /\ [][Next]_vars

SerialSpec == SerialInit /\ [][Next]_vars

EstablishedSpec == EstablishedInit /\ [][Next]_vars

CrowdedSpec == CrowdedInit /\ [][Next]_vars

TrioSpec == TrioInit /\ [][Next]_vars

\* the server with its keeper running
KeeperNext ==
  \/ Next
  \/ Tick
  \/ \E t \in Transports : Pong(t)

\* a suspended handler, callback or allocator operation resumes
Resume ==
  \/ CreateIPAddressEnter
  \/ CreateIPAddress
  \/ CreateTCPAddressEnter
  \/ CreateTCPAddress
  \/ ClaimTCPAddress
  \/ RemoveIPAddress
  \/ RemoveTCPAddress
  \/ \E t \in Transports : KnockAcknowledge(t)
  \/ \E t \in Transports : KnockRegister(t)
  \/ \E t \in Transports : BindRegister(t)
  \/ \E t \in Transports : ShutdownRemoveIP(t)
  \/ \E t \in Transports : ShutdownBroadcast(t)
  \/ \E t \in Transports : ConnectDecide(t)
  \/ \E t \in Transports : ConnectReject(t)
  \/ \E t \in Transports : ConnectServerAlias(t)
  \/ \E t \in Transports : ConnectAccept(t)
  \/ \E t \in Transports : ConnectRemoteAlias(t)
  \/ \E t \in Transports : Return(t)
  \/ \E t \in Transports : GoodbyeBroadcast(t)
  \/ \E c \in cb : AliasRemoveTCP(c)
  \/ \E c \in cb : AliasBroadcast(c)
  \/ \E t \in Transports : GoodbyeSettled(t)

\* the event loop runs every continuation that is ready, the mutex resuming
\* its oldest waiter
MutexSpec == MutexInit /\ [][Next]_vars /\ WF_vars(Resume)

\* the close event of a socket the keeper has terminated
Emitted(t) == conn[t] = "terminated" /\ Close(t)

\* the event loop runs every continuation that is ready and emits the close
\* event of a terminated socket
KeeperSpec ==
  /\ KeeperInit
  /\ [][KeeperNext]_vars
  /\ WF_vars(Resume)
  /\ \A t \in Transports : WF_vars(Emitted(t))

\* ================================================================ claims

\* the port list of the suffix an alias names, as a set; empty when the
\* suffix has no entry
PortsOf(sn, alias) ==
  LET p == ParseIPAddress(ParseTCPAddress(alias).ipAddress)
  IN IF HasSuffix(sn, p.subnet, p.suffix)
     THEN SeqToSet(sn[p.subnet][p.suffix])
     ELSE {}

\* C1: client ids are unique across the live set: no two open transports that
\* were acknowledged with rejected:false hold the same id.
C1_UniqueLiveIds ==
  \A t1, t2 \in Transports :
    (/\ t1 # t2
     /\ conn[t1] = "open" /\ conn[t2] = "open"
     /\ acked[t1] # NoAddress /\ acked[t2] # NoAddress)
      => acked[t1] # acked[t2]

\* C2: after every completed operation, for every alias S.n:p of the alias
\* table, suffix n exists in subnets[S] and p is in its port list.
C2_AliasPortAllocated ==
  Quiescent =>
    \A i \in 1..Len(aliases) :
      LET alias == aliases[i].key
          p == ParseIPAddress(ParseTCPAddress(alias).ipAddress)
      IN /\ HasSuffix(subnets, p.subnet, p.suffix)
         /\ ParseTCPAddress(alias).port \in PortsOf(subnets, alias)

\* C3: after every completed operation, every alias of the alias table has an
\* owner id that is present in the client table.
C3_AliasOwnerRegistered ==
  Quiescent =>
    \A i \in 1..Len(aliases) : MapHas(clients, aliases[i].val.id)

\* C4: in the goodbye procedure, no remaining client is sent Goodbye{id}
\* before an Alias{set:false} of the same disconnect: in what one disconnect
\* sends to one client, every Alias precedes the Goodbye.
C4_AliasesBeforeGoodbye ==
  \A t \in Transports :
    \A i, j \in 1..Len(g[t].sent) :
      (/\ g[t].sent[i].to = g[t].sent[j].to
       /\ g[t].sent[i].msg.opcode = "GOODBYE"
       /\ g[t].sent[j].msg.opcode = "ALIAS")
        => j < i

\* the number of entries of a log equal to e
Count(log, e) == Cardinality({j \in 1..Len(log) : log[j] = e})

\* C5: for every accepted KNOCK the Acknowledgement{id, rejected:false} is
\* sent to the new client before any Greeting; each client registered before
\* the KNOCK is sent exactly one Greeting{offererId: its own id, answererId:
\* new id}; the new client is sent no Greeting; and the new client enters the
\* client table only after the greetings.
C5_KnockOrder ==
  [][\A t \in Transports :
       /\ (h[t].pc = "knock_ip" /\ h'[t].pc = "knock_ack")
            => h'[t].sent =
                 <<[to |-> t, msg |-> Acknowledgement(h'[t].id, FALSE)]>>
       /\ (h[t].pc = "knock_ack" /\ h'[t].pc = "done")
            => LET id == h[t].id
                   greetings == Tail(h'[t].sent)
               IN /\ Head(h'[t].sent) = Head(h[t].sent)
                  /\ \A i \in 1..Len(clients) :
                       Count(greetings,
                             [to |-> clients[i].val,
                              msg |-> Greeting(clients[i].key, id)]) = 1
                  /\ Len(greetings) = Len(clients)
                  /\ \A j \in 1..Len(greetings) : greetings[j].to # t
                  /\ ~MapHas(clients, id)
                  /\ MapHas(clients', id) /\ MapGet(clients', id) = t]_vars

\* the four messages of an accepted CONNECT, in order
ConnectMessages(id, clientAlias, remoteAlias, remoteOwner, ccid) ==
  <<[to |-> ClientOf(clients, id),
     msg |-> AliasConnFlag(id, clientAlias, TRUE, ccid)],
    [to |-> ClientOf(clients, remoteOwner),
     msg |-> Alias(id, clientAlias, TRUE)],
    [to |-> ClientOf(clients, remoteOwner),
     msg |-> Accept(remoteAlias, clientAlias)],
    [to |-> ClientOf(clients, id),
     msg |-> AliasConn(remoteOwner, remoteAlias, TRUE, ccid)]>>

ConnectAccepted(t) == h[t].op = "CONNECT" /\ h[t].remoteOwner # NoAddress

\* C6: a CONNECT to a remote alias that is present and accepting emits exactly
\* four messages in this order: the connection alias to the initiator, the
\* same alias to the remote owner, Accept to the remote owner, the remote
\* alias to the initiator; and the connection alias is in the alias table,
\* owned by the initiator and not accepting, from before the first message.
C6_ConnectHandshake ==
  \A t \in Transports :
    ConnectAccepted(t) =>
      LET expected == ConnectMessages(h[t].id, h[t].res, h[t].alias,
                                      h[t].remoteOwner, h[t].ccid)
          n == Len(h[t].sent)
      IN /\ n \in 1..4
         /\ h[t].sent = SubSeq(expected, 1, n)
         /\ h[t].pc \in {"done", "threw"} => n = 4
         /\ MapHas(aliases, h[t].res)
         /\ MapGet(aliases, h[t].res) = MAlias(h[t].id, FALSE)

ConnectRejected(t) ==
  /\ h[t].op = "CONNECT"
  /\ h[t].pc = "done"
  /\ h[t].remoteOwner = NoAddress

\* C7: after a CONNECT whose remote alias was absent or not accepting has
\* returned, the allocated clientAlias is neither in the alias table nor in
\* the initiator's port list, and exactly one message was sent, to the
\* initiator: Alias{id, clientAlias, set:false, clientConnectionId}.
C7_ConnectRollback ==
  \A t \in Transports :
    ConnectRejected(t) =>
      /\ ~MapHas(aliases, h[t].res)
      /\ ParseTCPAddress(h[t].res).port \notin PortsOf(subnets, h[t].res)
      /\ h[t].sent = <<[to |-> ClientOf(clients, h[t].id),
                        msg |-> AliasConn(h[t].id, h[t].res, FALSE,
                                          h[t].ccid)]>>

\* a BIND that passed the alias-table test and has ended
BindClaimed(t) ==
  h[t].op = "BIND" /\ h[t].ready /\ h[t].pc \in {"done", "threw"}

BindSucceeded(t) ==
  /\ h[t].pc = "done"
  /\ \A j \in 1..Len(h[t].sent) :
       h[t].sent[j].msg = Alias(h[t].id, h[t].alias, TRUE)

BindRefused(t) ==
  h[t].sent = <<[to |-> ClientOf(clients, h[t].id),
                 msg |-> Alias(h[t].id, h[t].alias, FALSE)]>>

\* C8: of two BIND handlers for the same alias in flight at once, exactly one
\* succeeds and broadcasts Alias{set:true}, and the sender of the other one
\* is sent Alias{set:false}.
C8_BindContention ==
  \A t1, t2 \in Transports :
    (/\ t1 # t2
     /\ BindClaimed(t1) /\ BindClaimed(t2)
     /\ h[t1].alias = h[t2].alias)
      => \/ BindSucceeded(t1) /\ BindRefused(t2)
         \/ BindSucceeded(t2) /\ BindRefused(t1)

\* C9: whenever claim_port fails with PortAlreadyAllocated during a BIND, the
\* binder is sent Alias{id, alias, set:false}, the alias is not entered into
\* the alias table by it and no Alias{set:true} is broadcast.
C9_BindPortTaken ==
  \A t \in Transports :
    (BindClaimed(t) /\ h[t].err = "PortAlreadyAllocated") => BindRefused(t)

\* suffixes 0..255 of the subnet are all present
SubnetFull(sn, subnet) ==
  HasSubnet(sn, subnet) /\ \A n \in 0..MaxSuffix : HasSuffix(sn, subnet, n)

KnockRejection(t) == [to |-> t, msg |-> Acknowledgement(Rejected, TRUE)]

\* C10: createIPAddress answers a KNOCK with "-1" if and only if suffixes
\* 0..255 of its subnet are all present; the handler of a rejected KNOCK sends
\* exactly Acknowledgement{id:"-1", rejected:true} to the sender, sends no
\* Greeting, and none of its steps changes the client table or the subnet
\* table.
C10_KnockOverflow ==
  [][\A t \in Transports :
       /\ (h[t].pc = "knock_ip" /\ ~h[t].ready /\ h'[t].ready)
            => (h'[t].res = Rejected <=> SubnetFull(subnets, h[t].subnet))
       /\ (/\ h[t].op = "KNOCK"
           /\ h'[t] # h[t]
           /\ (h[t].res = Rejected \/ h'[t].res = Rejected))
            => /\ clients' = clients
               /\ subnets' = subnets
               /\ h'[t].sent \in {<<>>, <<KnockRejection(t)>>}
               /\ (h[t].pc = "knock_ip" /\ h[t].ready)
                    => /\ h'[t].sent = <<KnockRejection(t)>>
                       /\ h'[t].pc = "done"]_vars

\* a KNOCK was rejected and its handler has sent the rejection
C10_Witness ==
  \E t \in Transports :
    /\ h[t].op = "KNOCK" /\ h[t].pc = "done"
    /\ h[t].res = Rejected
    /\ h[t].sent = <<KnockRejection(t)>>
    /\ SubnetFull(subnets, h[t].subnet)

\* the smallest non-negative integer that is not in S
SmallestAbsent(S) ==
  CHOOSE v \in 0..Cardinality(S) : v \notin S /\ \A w \in 0..(v - 1) : w \in S

SuffixesOf(sn, subnet) == IF HasSubnet(sn, subnet) THEN DOMAIN sn[subnet] ELSE {}

\* C11: createIPAddress(S) that does not overflow returns S.v, v the smallest
\* non-negative integer that is not a suffix of subnets[S] before the call,
\* and createTCPAddress(S.n) that returns, returns S.n:p, p the smallest
\* non-negative integer not in the ports of subnets[S][n] before the call.
C11_GapFilling ==
  [][\A t \in Transports :
       (/\ ~h[t].ready /\ h'[t].ready
        /\ h'[t].err = "" /\ h'[t].res # Rejected)
         => /\ h[t].pc = "knock_ip"
                 => h'[t].res =
                      ToIPAddress(h[t].subnet,
                                  SmallestAbsent(SuffixesOf(subnets, h[t].subnet)))
            /\ h[t].pc = "connect_tcp"
                 => h'[t].res =
                      ToTCPAddress(h[t].id,
                                   SmallestAbsent(PortsOf(subnets,
                                     ToTCPAddress(h[t].id, 0))))]_vars

\* of three clients S.0, S.1, S.2 the middle one has left, and the next KNOCK
\* was given the released S.1
C11_Witness ==
  \E t \in Transports :
    /\ h[t].op = "KNOCK" /\ h[t].pc = "done"
    /\ h[t].res = ToIPAddress("S", 1)
    /\ ClientOf(clients, ToIPAddress("S", 0)) = 1
    /\ ClientOf(clients, ToIPAddress("S", 2)) = Resident
    /\ ClientOf(clients, ToIPAddress("S", 1)) = t

\* C12: when the close callback of a registered client id = S.n and all its
\* alias callbacks have finished, no alias in the alias table is owned by id,
\* subnets[S] has no entry n, and the client table has no entry for id.
C12_GoodbyeCleansUp ==
  \A t \in Transports :
    GoodbyeCompleted(t) =>
      LET id == g[t].id
          p == ParseIPAddress(id)
      IN /\ OwnedAliases(aliases, id) = <<>>
         /\ ~HasSuffix(subnets, p.subnet, p.suffix)
         /\ ~MapHas(clients, id)

IsAccepting(al, alias) == MapHas(al, alias) /\ MapGet(al, alias).accepting

\* C13: an alias enters the alias table with accepting = false, also when
\* BIND or CONNECT writes over an entry; accepting becomes true only in the
\* step that handles an ACCEPTING{id, alias} whose id is the owner of the
\* alias; a CONNECT goes on to register its connection alias only if the
\* remote alias is present and accepting; and ACCEPTING sends no message.
C13_AcceptingFlag ==
  [][/\ \A alias \in MapKeys(aliases') :
          /\ (IsAccepting(aliases', alias) /\ ~IsAccepting(aliases, alias))
               => \E t \in Transports :
                    /\ h[t] = Idle
                    /\ h'[t].op = "ACCEPTING" /\ h'[t].alias = alias
                    /\ MapHas(aliases, alias)
                    /\ MapGet(aliases, alias).id = h'[t].id
                    /\ MapGet(aliases', alias).id = h'[t].id
          /\ (IsAccepting(aliases', alias) /\ IsAccepting(aliases, alias))
               => MapGet(aliases', alias) = MapGet(aliases, alias)
     /\ \A t \in Transports :
          /\ (h[t].pc = "connect_tcp" /\ h'[t].pc = "connect_client_alias")
               => IsAccepting(aliases, h[t].alias)
          /\ (\E i \in 1..Len(h'[t].sent) : h'[t].sent[i].msg.opcode = "ACCEPT")
               => ConnectAccepted(t)
          /\ h'[t].op = "ACCEPTING" => h'[t].sent = <<>>]_vars

\* a CONNECT to an alias its owner had declared accepting went through
C13_Witness ==
  \E t \in Transports :
    /\ ConnectAccepted(t) /\ h[t].pc = "done"
    /\ \E i \in 1..Len(h[t].sent) : h[t].sent[i].msg.opcode = "ACCEPT"
    /\ MapHas(aliases, h[t].res)
    /\ ~MapGet(aliases, h[t].res).accepting

\* C14: when no operation is pending, every id in the client table maps to a
\* transport that is open and on which the close callback for that id is
\* installed.
C14_RegisteredIsLive ==
  Quiescent =>
    \A i \in 1..Len(clients) :
      clients[i].val \in Transports =>
        /\ conn[clients[i].val] = "open"
        /\ closeHandler[clients[i].val] = clients[i].key

\* a transport on which the server can still receive
Registered(t) == \E i \in 1..Len(clients) : clients[i].val = t

\* C15: at a tick of the keeper every open transport with an unanswered ping
\* of the tick before is terminated, and every other open transport stays
\* open, has its flag cleared and is pinged; a pong sets the flag; only a tick
\* terminates a transport, and only one whose ping went unanswered; a
\* terminated transport that is registered eventually has its goodbye run.
C15_Keeper ==
  /\ [][/\ ticks' # ticks =>
             \A t \in Transports :
               conn[t] = "open" =>
                 IF pings[t]
                 THEN conn'[t] = "terminated"
                 ELSE conn'[t] = "open" /\ ~isAlive'[t] /\ pings'[t]
        /\ \A t \in Transports :
             /\ (conn[t] = "open" /\ conn'[t] = "open" /\ pings[t] /\ ~pings'[t])
                  => isAlive'[t]
             /\ (conn'[t] = "terminated" /\ conn[t] # "terminated")
                  => ticks' # ticks /\ conn[t] = "open" /\ pings[t]]_vars
  /\ \A t \in Transports :
       (conn[t] = "terminated" /\ Registered(t))
         ~> (g[t].pc \in {"done", "settled"} /\ g[t].id = closeHandler[t])

C15_Witness ==
  \E t, u \in Transports :
    /\ ticks = MaxTicks
    /\ conn[t] = "terminated" /\ Registered(t) /\ pings[t]
    /\ conn[u] = "open" /\ Registered(u) /\ pings[u] /\ ~isAlive[u]

\* the entries of a log that carry msg to client
Deliveries(log, client, msg) ==
  Count(log, [to |-> client, msg |-> msg])

\* C16: a SHUTDOWN{id, alias} for an alias that is absent or owned by another
\* id changes neither the alias table nor the subnet table and sends exactly
\* Alias{id, alias, set:true} to the transport that sent it; a SHUTDOWN by the
\* owner removes the alias and, when it finishes, has sent
\* Alias{id, alias, set:false} once to every registered client, the sender
\* among them, and nothing else.
C16_ShutdownFrame ==
  [][\A t \in Transports :
       /\ (h[t] = Idle /\ h'[t].op = "SHUTDOWN") =>
            LET id == h'[t].id
                alias == h'[t].alias
            IN IF MapHas(aliases, alias) /\ MapGet(aliases, alias).id = id
               THEN ~MapHas(aliases', alias) /\ h'[t].sent = <<>>
               ELSE /\ aliases' = aliases
                    /\ subnets' = subnets
                    /\ h'[t].pc = "done"
                    /\ h'[t].sent = <<[to |-> t, msg |-> Alias(id, alias, TRUE)]>>
       /\ (h[t].op = "SHUTDOWN" /\ h[t].pc # "done" /\ h'[t].pc = "done") =>
            LET msg == Alias(h[t].id, h[t].alias, FALSE)
            IN /\ Len(h'[t].sent) = Len(clients)
               /\ \A i \in 1..Len(clients) :
                    Deliveries(h'[t].sent, clients[i].val, msg) = 1
               /\ Deliveries(h'[t].sent, t, msg) = 1]_vars

\* C17: a BIND{id, alias} for an alias in the alias table changes neither its
\* entry nor the subnet table and sends exactly Alias{id, alias, set:false} to
\* the transport that sent it; a BIND for an absent alias ends with the entry
\* (alias -> {id, accepting:false}) in the alias table, the port in the port
\* list of the alias's address, and Alias{id, alias, set:true} sent once to
\* every registered client, the sender among them, and nothing else.
C17_BindFrame ==
  [][\A t \in Transports :
       /\ (h[t] = Idle /\ h'[t].op = "BIND" /\ MapHas(aliases, h'[t].alias)) =>
            /\ aliases' = aliases
            /\ subnets' = subnets
            /\ h'[t].pc = "done"
            /\ h'[t].sent =
                 <<[to |-> t, msg |-> Alias(h'[t].id, h'[t].alias, FALSE)]>>
       /\ (h[t] = Idle /\ h'[t].op = "BIND" /\ ~MapHas(aliases, h'[t].alias)) =>
            h'[t].pc = "bind_claim" /\ h'[t].sent = <<>>
       /\ (h[t].pc = "bind_claim" /\ h'[t].pc # "bind_claim") =>
            LET msg == Alias(h[t].id, h[t].alias, TRUE)
            IN /\ h'[t].pc = "done"
               /\ MapHas(aliases', h[t].alias)
               /\ MapGet(aliases', h[t].alias) = MAlias(h[t].id, FALSE)
               /\ ParseTCPAddress(h[t].alias).port \in PortsOf(subnets', h[t].alias)
               /\ Len(h'[t].sent) = Len(clients)
               /\ \A i \in 1..Len(clients) :
                    Deliveries(h'[t].sent, clients[i].val, msg) = 1
               /\ Deliveries(h'[t].sent, t, msg) = 1]_vars

\* a request of kind k started on transport t waits for the mutex
Waiting(k, t) ==
  \E i \in 1..Len(queue) : queue[i].kind = k /\ queue[i].t = t

\* C18: while an allocator operation is inside its body no other one enters
\* or leaves the queue and only the one inside writes the subnet table; the
\* subnet table is written by nothing but an allocator operation that holds
\* the mutex; an operation that ends with an error leaves the mutex free; and
\* every handler or callback that waits for the mutex eventually acquires it.
C18_MutexExclusion ==
  /\ [][/\ holder # NoRequest =>
             /\ holder' \in {holder, NoRequest}
             /\ Len(queue') >= Len(queue)
             /\ SubSeq(queue', 1, Len(queue)) = queue
             /\ holder' = holder => subnets' = subnets
        /\ subnets' # subnets =>
             \/ holder # NoRequest /\ holder' = NoRequest
             \/ holder = NoRequest /\ holder' = NoRequest
                  /\ queue # <<>> /\ queue' = Tail(queue)
        /\ \A t \in Transports :
             (~h[t].ready /\ h'[t].ready /\ h'[t].err # "") =>
               holder' = NoRequest]_vars
  /\ \A k \in {"h", "g", "a"}, t \in Transports :
       Waiting(k, t) ~> ~Waiting(k, t)

C18_Witness ==
  \E t \in Transports :
    /\ h[t].ready /\ h[t].err # ""
    /\ holder # NoRequest /\ holder.t # t

\* C19: for every id S.n in the client table, n is a suffix of subnet S in
\* the subnet table, and no CONNECT fails with SuffixDoesNotExist.
C19_RegisteredKeepsSuffix ==
  /\ \A i \in 1..Len(clients) :
       LET p == ParseIPAddress(clients[i].key)
       IN HasSuffix(subnets, p.subnet, p.suffix)
  /\ \A t \in Transports :
       h[t].op = "CONNECT" => h[t].err # "SuffixDoesNotExist"

\* a SHUTDOWN sent with id x is being handled, or the goodbye of x is running
Tearing(hs, gs, x) ==
  \E t \in Transports :
    \/ hs[t].op = "SHUTDOWN" /\ hs[t].id = x
    \/ gs[t].pc \notin {"none", "settled"} /\ gs[t].id = x

\* the aliases of al on the address id
AliasesAt(al, id) == {a \in MapKeys(al) : ParseTCPAddress(a).ipAddress = id}

\* C20: no step of the goodbye procedure of a client x, and no step of a
\* SHUTDOWN sent by x, changes the client-table entry or the aliases of
\* another registered client y, removes y's suffix from the subnet table, or
\* removes from y's port list the port of an alias that stays in the alias
\* table.
C20_TeardownFrame ==
  [][\A x \in MapKeys(clients) \cup {g'[t].id : t \in Transports} :
       (Tearing(h, g, x) \/ Tearing(h', g', x)) =>
         \A y \in MapKeys(clients) \ {x} :
           LET p == ParseIPAddress(y)
           IN /\ MapHas(clients', y)
              /\ MapGet(clients', y) = MapGet(clients, y)
              /\ HasSuffix(subnets, p.subnet, p.suffix)
                   => HasSuffix(subnets', p.subnet, p.suffix)
              /\ \A a \in AliasesAt(aliases', y) :
                   ParseTCPAddress(a).port \in PortsOf(subnets, a)
                     => ParseTCPAddress(a).port \in PortsOf(subnets', a)
              /\ OwnedAliases(aliases', y) = OwnedAliases(aliases, y)]_vars

====
